---- MODULE Spec2Model ----
(***************************************************************************)
(* Model of the thermometer firmware (Particle Photon, LM35DZ sensor):     *)
(* one pass of loop() after the other, with the commands received through  *)
(* Blynk, the connection probe, the temperature measurement and its trend, *)
(* the publishing to Particle, ThingSpeak and Blynk, and the statistics    *)
(* kept in retained memory across resets.                                  *)
(*                                                                         *)
(* Temperatures are fixed-point integers in tenths of a centigrade: the    *)
(* source's 5.0 is 50 here.  The clock millis() is unsigned on 32 bits and *)
(* is kept in units of 8 ms, which divide every period of the firmware, so *)
(* that it wraps at 2^29 units exactly where the source wraps at 2^32 ms.  *)
(***************************************************************************)
EXTENDS Integers, Sequences, FiniteSets, TLC

VARIABLES
    build,                      \* the #defines the firmware was compiled with
    ladder,                     \* the TEMP_BUCKET table the firmware was compiled with
    variant,                    \* the sketch compiled: "thermometer" (thermometer.ino),
                                \*   "thermometer01" (thermometer01.ino, 1.5.0) or
                                \*   "thermometer100" (the sketch 1.0.0, src/unnamed/part_001)
    sensor,                     \* environment: the values the filtered sensor reading can take
    env,                        \* environment: what else the surroundings of the firmware can do
    now,                        \* millis(), in units of 8 ms
    pc,                         \* the handler that runs next: "setup", or within loop() "loop",
                                \*   "blynk", "watch", "mqtt", "measure", "trend" or "publish"
                                \*   ("publish100" in the sketch 1.0.0)
    passes,                     \* history: number of passes of loop() begun
    particlePublishAfterBoot,   \* thermometer.ino:132 (flagAfterBoot in thermometer01.ino,
                                \*   stateAfterBoot in the sketch 1.0.0)
    sendMsgNoInits,             \* static sendMsgNo of publishParticleInits
    sendMsgNoValues,            \* static sendMsgNo of publishParticleValues
    tsPublish,                  \* static tsPublish of publishParticle
    batchMsgs,                  \* batchMsgs of publishParticle when it last returned
    batch,                      \* history: the Particle.publish calls of the latest run of publishParticle
    sentInits,                  \* history: boot message numbers published successfully, in order
    sentValues,                 \* history: value message numbers published successfully, in order
    anyFail,                    \* history: some Particle.publish call has failed
    bootDoneNow,                \* history: the latest run of publishParticle cleared particlePublishAfterBoot
    bootDoneBefore,             \* history: particlePublishAfterBoot was already false when the latest run began
    startMsgNoValues,           \* history: startMsgNo of publishParticleValues in the latest run
    pendingBefore,              \* history: per phase, the message number whose publish failed last
                                \*   and was not attempted again before the latest run (-1: none)
    tempValue,                  \* thermometer.ino:118
    tempStatus,                 \* thermometer.ino:119
    tempValueMin,               \* thermometer.ino:123
    tempValueMax,               \* thermometer.ino:123
    tsMeasureTemp,              \* static tsMeasure of measureTemp
    measured,                   \* history: number of readings measureTemp has produced, up to 2
    tempValuePrev,              \* history: tempValue before the latest reading
    tempStatusPrev,             \* history: tempStatus before the latest reading
    readNow,                    \* history: the latest call of measureTemp produced a reading
    tempTrend,                  \* thermometer.ino:118, in thousandths of a centigrade per minute
    tsTrend,                    \* static tsMeasure of measureTempTrend
    tsTrendOld,                 \* static tsMeasureOld of measureTempTrend
    trendValueOld,              \* static tempValueOld of measureTempTrend
    seed,                       \* history: clock time and reading of the call of measureTempTrend
                                \*   that opened the latest window (NoSeed: none)
    bootCount,                  \* thermometer.ino:122 (boots in thermometer01.ino)
    bootTimeLast,               \* thermometer.ino:122
    bootRunPeriod,              \* thermometer.ino:122
    reconnects,                 \* thermometer.ino:92, retained in thermometer01.ino:117
    timeNow,                    \* history: Time.now() as setup() read it last
    folded,                     \* history: measureTemp has folded a reading into the extrema
                                \*   since the power-up
    dispatched,                 \* history: the command Blynk.run() dispatched in this pass
                                \*   of loop() (NoCommand: none)
    connected,                  \* Particle.connected()
    tsWatch,                    \* static tsMeasure of watchConnection
    tsThingspeak,               \* static tsPublish of publishThingspeak
    thingspeakResult,           \* thermometer.ino:147
    tsBlynk,                    \* static tsPublish of publishBlynk
    blynkStatics,               \* the statics of publishBlynk have been initialized
    blynkStatusOld,             \* static tempStatusOld of publishBlynk
    blynkValueOld,              \* static tempValueOld of publishBlynk
    ledTempInc,                 \* the Blynk LED widget ledTempInc is on
    ledTempDec,                 \* the Blynk LED widget ledTempDec is on
    notified,                   \* history: the status of the latest Blynk.notify (-1: none)
    tickles,                    \* history: number of calls of Watchdogs::tickle() in this pass
                                \*   of loop()
    connectIssued,              \* history: the latest call of watchConnection called
                                \*   Particle.connect()
    notifyLog,                  \* history: the statuses of the Blynk.notify calls, in order
    delivered,                  \* history: the message MqttClient.loop() delivered in this pass
                                \*   of loop() (NoMessage: none)
    mqttStatus,                 \* history: number of status messages subscriptionMqtt published
                                \*   in this pass of loop()
    loopIters,                  \* history: per phase, the iterations of its while loop in the
                                \*   latest run of publishParticle
    rssiValue,                  \* int rssiValue, in dBm
    efRssi,                     \* efRssi: whether the filter is still to take its first value,
                                \*   and its value in tenths of a dBm
    tsMeasureRssi,              \* static tsMeasure of measureRssi, in clock units
    rssiFiltered,               \* history: the values the latest call of measureRssi passed to
                                \*   efRssi.getValue
    since                       \* history: per polled task, the time in clock units since its
                                \*   latest run, summed over the passes of loop()

varsBuild == <<build, ladder, variant, sensor, env>>
varsPublish == <<particlePublishAfterBoot, sendMsgNoInits, sendMsgNoValues,
                 tsPublish, batchMsgs, batch, sentInits, sentValues, anyFail,
                 bootDoneNow, bootDoneBefore, startMsgNoValues, pendingBefore, loopIters>>
varsMeasure == <<tempValue, tempStatus, tempValueMin, tempValueMax,
                 tsMeasureTemp, measured, tempValuePrev, tempStatusPrev, readNow>>
varsTrend == <<tempTrend, tsTrend, tsTrendOld, trendValueOld, seed>>
varsStats == <<bootCount, bootTimeLast, bootRunPeriod, timeNow, folded>>
varsWatch == <<connected, tsWatch, reconnects, connectIssued>>
varsBlynk == <<dispatched, delivered, mqttStatus>>
varsClouds == <<tsThingspeak, thingspeakResult, tsBlynk, blynkStatics, blynkStatusOld,
                blynkValueOld, ledTempInc, ledTempDec, notified, notifyLog>>
varsRssi == <<rssiValue, efRssi, tsMeasureRssi, rssiFiltered>>
vars == <<varsBuild, now, pc, passes, tickles, varsRssi, varsPublish, varsMeasure, varsTrend,
          varsStats, varsWatch, varsBlynk, varsClouds, since>>

----------------------------------------------------------------------------
(* Bounds of the model *)

\* Number of passes of loop() a behaviour may take when it follows the publishing.
MaxLoops == 12
\* Number of passes of loop() a behaviour may take when it follows the readings.
MeasureLoops == 3
\* Number of passes of loop() a behaviour may take when it follows the trend.
TrendLoops == 14
\* Number of passes of loop() a behaviour may take when it follows the resets.
StatsLoops == 3
\* Number of passes of loop() a behaviour may take around the wrap of the clock.
LateLoops == 26
\* Number of boots the retained memory may count.
MaxBoots == 3
\* Milliseconds of the clock that pass between two passes of loop().
LoopMs == 5000
\* Number of iterations of a while loop of the publish scheduler that are followed.
MaxIters == 12
\* Number of passes of loop() a behaviour may take when it follows the Blynk LEDs
\* and notifications.
BlynkLoops == 13
\* Number of passes of loop() a behaviour of the sketch 1.0.0 may take.
FirstLoops == 13
\* The passes loop() makes in SpecFair while the cloud refuses events at will,
\* and the passes it makes once the cloud accepts every event.
FairLoops == 9
\* The passes of loop() in SpecRssi.
RssiLoops == 5
Remaining == 10

----------------------------------------------------------------------------
(* Program constants *)

TIMEOUT_RECONNECT == 10000
PERIOD_MEASURE_TEMP == 2000
PERIOD_MEASURE_RSSI == 2000
PERIOD_MEASURE_RSSI_01 == 1000
PERIOD_MEASURE_TEMP_TREND == 60000
PERIOD_PUBLISH_PARTICLE == 15000
PERIOD_PUBLISH_THINGSPEAK == 60000
PERIOD_PUBLISH_BLYNK == 30000
TEMP_VALUE_MARGIN == 2
PARTICLE_BATCH_LIMIT == 4
TEMP_VALUE_NAN == -9990
TEMP_VALUE_MIN_INIT == 1000
TEMP_VALUE_MAX_INIT == -250
\* The initial values of thermometer01.ino: float tempValue; and the extrema.
TEMP_VALUE_INIT_01 == 0
TEMP_VALUE_MIN_INIT_01 == 1500
TEMP_VALUE_MAX_INIT_01 == -500

\* const float TEMP_BUCKET[] of thermometer.ino, in tenths of a centigrade.
TEMP_BUCKET == <<0, 50, 160, 200, 240, 280>>
\* const float TEMP_BUCKET[] of thermometer01.ino (1.5.0), in tenths of a centigrade.
TEMP_BUCKET_01 == <<0, 40, 60, 80>>

\* Milliseconds in clock units.
Units(ms) == ms \div 8

\* The clock values: 2^32 ms.
Wrap == 2^29

\* Sub32 with a fault: the difference is taken on a wider unsigned type, on which
\* a smaller minus a greater time stamp is a number beyond every period.
Sub32_Wide(a, b) == IF a >= b THEN a - b ELSE Wrap

\* unsigned long arithmetic: a - b on 32 bits.
Sub32(a, b) == (a - b + Wrap) % Wrap

\* The builds with PARTICLE_CLOUD (and PHOTON_PUBLISH_VALUE) defined: the
\* combinations of PHOTON_PUBLISH_DEBUG and THINGSPEAK_CLOUD that change the
\* message tables.  thermometer.ino defines both, thermometer01.ino (1.2.0)
\* leaves PHOTON_PUBLISH_DEBUG out.
ParticleBuilds == { [particle |-> TRUE, debug |-> TRUE,  thingspeak |-> TRUE],
                    [particle |-> TRUE, debug |-> TRUE,  thingspeak |-> FALSE],
                    [particle |-> TRUE, debug |-> FALSE, thingspeak |-> TRUE] }

\* The build with PARTICLE_CLOUD left out, as thermometer01.ino (1.5.0) does.
NoParticleBuild == [particle |-> FALSE, debug |-> FALSE, thingspeak |-> TRUE]

\* Number of case labels of the switch of publishParticleInits.
NumInits == IF build.debug THEN 5 ELSE 1

\* Number of case labels of the switch of publishParticleValues.
NumValues == IF build.debug THEN (IF build.thingspeak THEN 5 ELSE 4) ELSE 3


----------------------------------------------------------------------------
(* The Particle publish scheduler *)

\* One call of Particle.publish, appended to the log of the run.
Published(log, phase, msgNo, ok) ==
    Append(log, [phase |-> phase, msgNo |-> msgNo, ok |-> ok])

\* AfterSuccess with a fault: the message number is not advanced.
AfterSuccess_NoAdvance(s) == [s EXCEPT !.batchMsgs = @ + 1]

\* batchMsgs++; sendMsgNo++; at the end of the loop body of either phase.
AfterSuccess(s) == [s EXCEPT !.batchMsgs = @ + 1, !.sendMsgNo = @ + 1]

\* AfterFailure with a fault: the message number is advanced before the loop is left.
AfterFailure_Advance(s) == [s EXCEPT !.sendMsgNo = @ + 1]

\* if (!publishSuccess) break; of either phase: the loop state it leaves.
AfterFailure(s) == s

\* BootDone with a fault: the flag is not cleared.
BootDone_FlagKept(s) == [s EXCEPT !.sendMsgNo = 0]

\* The default label of publishParticleInits.
BootDone(s) == [s EXCEPT !.afterBoot = FALSE, !.sendMsgNo = 0]

\* WrapContinues with a fault: the rotation goes on whatever the first message was.
WrapContinues_Always(startMsgNo) == TRUE

\* if (startMsgNo > 0) continue; at the default label of publishParticleValues.
WrapContinues(startMsgNo) == startMsgNo > 0

\* Rewound with a fault: the message number stays beyond the table.
Rewound_Stay(s) == s

\* sendMsgNo = 0; at the default label of publishParticleValues.
Rewound(s) == [s EXCEPT !.sendMsgNo = 0]

\* The body of the while loop of either phase is entered once more; the loops
\* are followed for MaxIters iterations.
Iterated(s) == [s EXCEPT !.iters = @ + 1]

\* The while loop of publishParticleInits from loop state s on.  res[j] is the
\* result of the j-th Particle.publish call of the run of publishParticle.  The
\* default label assigns nothing to the local publishSuccess, which is read right
\* after it while uninitialized: ub is the value read (read at most once in a
\* call, since the default label clears the loop condition).
RECURSIVE InitsLoop(_, _, _)
InitsLoop(s, res, ub) ==
    IF ~(s.afterBoot /\ s.batchMsgs < PARTICLE_BATCH_LIMIT) \/ s.iters >= MaxIters THEN s
    ELSE LET u == Iterated(s)
         IN  IF u.sendMsgNo < NumInits
             THEN LET ok == res[Len(u.log) + 1]
                      t  == [u EXCEPT !.log = Published(@, "Inits", u.sendMsgNo, ok)]
                  IN  IF ~ok THEN AfterFailure(t)
                      ELSE InitsLoop(AfterSuccess(t), res, ub)
             ELSE IF ~ub THEN AfterFailure(BootDone(u))
                  ELSE InitsLoop(AfterSuccess(BootDone(u)), res, ub)

\* byte publishParticleInits(byte sentBatchMsgs)
publishParticleInits(sentBatchMsgs, res, ub) ==
    InitsLoop([afterBoot |-> particlePublishAfterBoot, sendMsgNo |-> sendMsgNoInits,
               batchMsgs |-> sentBatchMsgs, log |-> <<>>, iters |-> 0], res, ub)

\* The while loop of publishParticleValues from loop state s on.  When the
\* default label is left by break (startMsgNo = 0) the local publishSuccess is
\* read while uninitialized: ub is the value read (read at most once in a call:
\* a table of at least PARTICLE_BATCH_LIMIT - 1 messages has been published
\* before it, and a true value uses up the batch).
RECURSIVE ValuesLoop(_, _, _, _)
ValuesLoop(s, startMsgNo, res, ub) ==
    IF ~(s.batchMsgs < PARTICLE_BATCH_LIMIT) \/ s.iters >= MaxIters THEN s
    ELSE LET u == Iterated(s)
         IN  IF u.sendMsgNo < NumValues
             THEN LET ok == res[Len(u.log) + 1]
                      t  == [u EXCEPT !.log = Published(@, "Values", u.sendMsgNo, ok)]
                  IN  IF ~ok THEN AfterFailure(t)
                      ELSE ValuesLoop(AfterSuccess(t), startMsgNo, res, ub)
             ELSE LET t == Rewound(u)
                  IN  IF WrapContinues(startMsgNo) THEN ValuesLoop(t, startMsgNo, res, ub)
                      ELSE IF ~ub THEN AfterFailure(t)
                      ELSE ValuesLoop(AfterSuccess(t), startMsgNo, res, ub)

\* byte publishParticleValues(byte sentBatchMsgs); log is the history so far.
publishParticleValues(sentBatchMsgs, log, res, ub) ==
    ValuesLoop([sendMsgNo |-> sendMsgNoValues, batchMsgs |-> sentBatchMsgs, log |-> log,
                iters |-> 0], sendMsgNoValues, res, ub)

\* HandedBatchMsgs with a fault: the value phase is handed a batch used up.
HandedBatchMsgs_Full(inits) == PARTICLE_BATCH_LIMIT

\* HandedBatchMsgs with a fault: the value phase starts a batch of its own.
HandedBatchMsgs_Fresh(inits) == inits.batchMsgs - inits.batchMsgs

\* The batchMsgs that publishParticle passes from publishParticleInits on to
\* publishParticleValues.
HandedBatchMsgs(inits) == inits.batchMsgs

\* The message numbers of phase published successfully in log, in order.
RECURSIVE Successes(_, _)
Successes(log, phase) ==
    IF log = <<>> THEN <<>>
    ELSE LET e == Head(log)
         IN  (IF e.phase = phase /\ e.ok THEN <<e.msgNo>> ELSE <<>>)
             \o Successes(Tail(log), phase)

\* The calls of log that are of phase.
Attempts(log, phase) == SelectSeq(log, LAMBDA e : e.phase = phase)

\* Per phase, the failed message number not yet attempted again after the run
\* whose log is given.
PendingAfter(before, log) ==
    [p \in {"Inits", "Values"} |->
        LET a == Attempts(log, p)
        IN  IF a = <<>> THEN before[p]
            ELSE IF a[Len(a)].ok THEN -1 ELSE a[Len(a)].msgNo]

\* The most Particle.publish calls one run makes: PARTICLE_BATCH_LIMIT successes
\* and one failure in each phase.
MaxAttempts == PARTICLE_BATCH_LIMIT + 2

\* void publishParticle(): the body run when the period has elapsed.
publishParticle ==
    IF Sub32(now, tsPublish) >= Units(PERIOD_PUBLISH_PARTICLE)
    THEN \E res \in [1..MaxAttempts -> env.accepts], ubInits \in BOOLEAN, ubValues \in BOOLEAN :
            LET inits  == publishParticleInits(0, res, ubInits)
                values == publishParticleValues(HandedBatchMsgs(inits), inits.log, res, ubValues)
            IN  /\ tsPublish' = now
                /\ particlePublishAfterBoot' = inits.afterBoot
                /\ sendMsgNoInits' = inits.sendMsgNo
                /\ sendMsgNoValues' = values.sendMsgNo
                /\ batchMsgs' = values.batchMsgs
                /\ batch' = values.log
                /\ sentInits' = sentInits \o Successes(values.log, "Inits")
                /\ sentValues' = sentValues \o Successes(values.log, "Values")
                /\ anyFail' = (anyFail \/ \E j \in 1..Len(values.log) : ~values.log[j].ok)
                /\ bootDoneBefore' = ~particlePublishAfterBoot
                /\ bootDoneNow' = (particlePublishAfterBoot /\ ~inits.afterBoot)
                /\ startMsgNoValues' = sendMsgNoValues
                /\ pendingBefore' = PendingAfter(pendingBefore, batch)
                /\ loopIters' = [Inits |-> inits.iters, Values |-> values.iters]
    ELSE UNCHANGED varsPublish

----------------------------------------------------------------------------
(* Publishing to ThingSpeak and to Blynk *)

\* void publishThingspeak(); the result of ThingSpeak.writeFields is drawn from
\* env.thingspeak.
publishThingspeak ==
    IF Sub32(now, tsThingspeak) >= Units(PERIOD_PUBLISH_THINGSPEAK)
    THEN /\ tsThingspeak' = now
         /\ thingspeakResult' \in env.thingspeak
    ELSE UNCHANGED <<tsThingspeak, thingspeakResult>>

\* fabs(tempValue - tempValueOld)
Fabs(x) == IF x >= 0 THEN x ELSE 0 - x

\* Remembered with a fault: the status of the notification is not kept.
Remembered_Not(status, statusOld) == statusOld

\* tempStatusOld = tempStatus; where tempStatus differs from tempStatusOld, which
\* is the same where it does not.
Remembered(status, statusOld) == status

\* if (tempValue > tempValueOld), if (tempDiff > 0): ledTempInc is turned on.
Rising(value, valueOld) == value > valueOld

\* Falling with a fault: the comparison is the one of Rising.
Falling_Rising(value, valueOld) == value > valueOld

\* else if (tempValue < tempValueOld), else if (tempDiff < 0): ledTempDec is
\* turned on.
Falling(value, valueOld) == value < valueOld

\* The body of publishBlynk of thermometer.ino behind its period; valueOld and
\* statusOld are its statics.
BlynkBody(valueOld, statusOld) ==
    IF Fabs(tempValue - valueOld) > TEMP_VALUE_MARGIN
    THEN /\ notified' = (IF tempStatus # statusOld THEN tempStatus ELSE notified)
         /\ notifyLog' = (IF tempStatus # statusOld THEN Append(notifyLog, tempStatus)
                          ELSE notifyLog)
         /\ blynkStatusOld' = Remembered(tempStatus, statusOld)
         /\ ledTempInc' = Rising(tempValue, valueOld)
         /\ ledTempDec' = Falling(tempValue, valueOld)
         /\ blynkValueOld' = tempValue
    ELSE /\ blynkStatusOld' = statusOld
         /\ blynkValueOld' = valueOld
         /\ UNCHANGED <<ledTempInc, ledTempDec, notified, notifyLog>>

\* The body of publishBlynk of thermometer01.ino behind its period.
BlynkBody01(valueOld, statusOld) ==
    LET tempDiff == tempValue - valueOld
        notify   == Fabs(tempDiff) > TEMP_VALUE_MARGIN /\ tempStatus # statusOld
    IN  /\ ledTempInc' = Rising(tempDiff, 0)
        /\ ledTempDec' = Falling(tempDiff, 0)
        /\ notified' = (IF notify THEN tempStatus ELSE notified)
        /\ notifyLog' = (IF notify THEN Append(notifyLog, tempStatus) ELSE notifyLog)
        /\ blynkStatusOld' = (IF notify THEN tempStatus ELSE statusOld)
        /\ blynkValueOld' = tempValue

\* void publishBlynk(); its statics tempStatusOld and tempValueOld are
\* initialized from tempStatus and tempValue when it is called first.
publishBlynk ==
    LET valueOld  == IF blynkStatics THEN blynkValueOld ELSE tempValue
        statusOld == IF blynkStatics THEN blynkStatusOld ELSE tempStatus
    IN  /\ blynkStatics' = TRUE
        /\ IF Sub32(now, tsBlynk) >= Units(PERIOD_PUBLISH_BLYNK)
           THEN /\ tsBlynk' = now
                /\ IF variant = "thermometer" THEN BlynkBody(valueOld, statusOld)
                   ELSE BlynkBody01(valueOld, statusOld)
           ELSE /\ blynkStatusOld' = statusOld
                /\ blynkValueOld' = valueOld
                /\ UNCHANGED <<tsBlynk, ledTempInc, ledTempDec, notified, notifyLog>>

\* void publish(): publishParticle() when PARTICLE_CLOUD is defined, then
\* publishThingspeak() and publishBlynk().
publish ==
    /\ pc = "publish"
    /\ pc' = "loop"
    /\ IF build.particle THEN publishParticle ELSE UNCHANGED varsPublish
    /\ publishThingspeak
    /\ publishBlynk
    /\ since' = [since EXCEPT !.particle   = IF tsPublish' # tsPublish THEN 0 ELSE @,
                              !.thingspeak = IF tsThingspeak' # tsThingspeak THEN 0 ELSE @,
                              !.blynk      = IF tsBlynk' # tsBlynk THEN 0 ELSE @]
    /\ UNCHANGED <<varsBuild, now, passes, tickles, varsRssi, varsMeasure, varsTrend, varsStats, varsWatch,
                   varsBlynk>>

----------------------------------------------------------------------------
(* The temperature measurement *)

\* Reaches with a fault: a reading on a threshold stays in the bucket below.
Reaches_Strict(value, threshold) == value > threshold

\* Reaches with a fault: the comparison the other way round.
Reaches_Below(value, threshold) == value <= threshold

\* tempValue >= TEMP_BUCKET[i]
Reaches(value, threshold) == value >= threshold

\* The for loop of measureTemp from the i-th bucket on (i counts from 1 here and
\* from 0 in the source, so that the source's i + 1 is i).
RECURSIVE StatusScan(_, _, _)
StatusScan(value, i, status) ==
    IF i > Len(ladder) THEN status
    ELSE StatusScan(value, i + 1, IF Reaches(value, ladder[i]) THEN i ELSE status)

\* efRssi before its first value.
Unfiltered == [init |-> TRUE, value |-> 0]

\* A tenth of a number of tenths, the fraction cut off: the float that getValue
\* returns, assigned to the int rssiValue.
Whole(tenths) == IF tenths >= 0 THEN tenths \div 10 ELSE 0 - ((0 - tenths) \div 10)

\* efRssi.getValue(value) with FACTOR_RSSI = 0.1, in tenths of a dBm: the first
\* value is taken as it is, a later one moves the filter a tenth of the way
\* towards it.
Filtered(ef, value) ==
    [init  |-> FALSE,
     value |-> IF ef.init THEN 10 * value
               ELSE ef.value + Whole(10 * value - ef.value)]

\* if (value < 0)
Valid(value) == value < 0

\* void measureRssi(); each call of WiFi.RSSI() returns a value of env.rssi.  In
\* thermometer.ino (and in thermometer01.ino 1.2.0) the value of a first call is
\* tested and the value of a second call is filtered; thermometer01.ino 1.5.0
\* stores the value of its only call.
measureRssi ==
    /\ pc = "rssi"
    /\ pc' = "measure"
    /\ IF variant = "thermometer"
       THEN IF Sub32(now, tsMeasureRssi) >= Units(PERIOD_MEASURE_RSSI) \/ tsMeasureRssi = 0
            THEN \E value \in env.rssi, again \in env.rssi :
                    /\ tsMeasureRssi' = now
                    /\ IF Valid(value)
                       THEN /\ efRssi' = Filtered(efRssi, again)
                            /\ rssiValue' = Whole(Filtered(efRssi, again).value)
                            /\ rssiFiltered' = <<again>>
                       ELSE /\ rssiFiltered' = <<>>
                            /\ UNCHANGED <<efRssi, rssiValue>>
            ELSE /\ rssiFiltered' = <<>>
                 /\ UNCHANGED <<efRssi, rssiValue, tsMeasureRssi>>
       ELSE IF Sub32(now, tsMeasureRssi) >= Units(PERIOD_MEASURE_RSSI_01) \/ tsMeasureRssi = 0
            THEN \E value \in env.rssi :
                    /\ tsMeasureRssi' = now
                    /\ rssiValue' = value
                    /\ rssiFiltered' = <<>>
                    /\ UNCHANGED efRssi
            ELSE /\ rssiFiltered' = <<>>
                 /\ UNCHANGED <<efRssi, rssiValue, tsMeasureRssi>>
    /\ UNCHANGED <<varsBuild, now, passes, tickles, varsPublish, varsMeasure, varsTrend, varsStats,
                   varsWatch, varsBlynk, varsClouds, since>>

\* fmin(a, b)
Minimum(a, b) == IF a <= b THEN a ELSE b

\* Maximum with a fault: the value kept is not compared with the new one.
Maximum_First(a, b) == a

\* fmax(a, b)
Maximum(a, b) == IF a >= b THEN a ELSE b

\* void measureTemp(); the filtered reading efTemp.getValue(...) is drawn from sensor.
measureTemp ==
    /\ pc = "measure"
    /\ pc' = "trend"
    /\ IF Sub32(now, tsMeasureTemp) >= Units(PERIOD_MEASURE_TEMP) \/ tsMeasureTemp = 0
       THEN \E v \in sensor :
               /\ tsMeasureTemp' = now
               /\ tempValue' = v
               /\ tempValueMin' = Minimum(tempValueMin, v)
               /\ tempValueMax' = Maximum(tempValueMax, v)
               /\ tempStatus' = StatusScan(v, 1, 0)
               /\ measured' = Minimum(measured + 1, 2)
               /\ tempValuePrev' = tempValue
               /\ tempStatusPrev' = tempStatus
               /\ readNow' = TRUE
               /\ folded' = TRUE
       ELSE /\ readNow' = FALSE
            /\ UNCHANGED <<tempValue, tempStatus, tempValueMin, tempValueMax,
                           tsMeasureTemp, measured, tempValuePrev, tempStatusPrev, folded>>
    /\ UNCHANGED <<varsBuild, now, passes, tickles, varsRssi, varsPublish, varsTrend, bootCount, bootTimeLast,
                   bootRunPeriod, timeNow, varsWatch, varsBlynk, varsClouds, since>>

----------------------------------------------------------------------------
(* The temperature trend *)

\* Undefined with a fault: the check is left out.
Undefined_Never(value) == FALSE

\* if (tempValue == TEMP_VALUE_NAN) return;
Undefined(value) == value = TEMP_VALUE_NAN

\* if (tsMeasureOld > 0): a baseline has been recorded.
HasBaseline(tsOld) == tsOld > 0

\* a / b in fixed point, for b other than 0.
Quotient(a, b) == IF b > 0 THEN a \div b ELSE (0 - a) \div (0 - b)

\* 6e4 * (tempValue - tempValueOld) / ((float) tsMeasure - (float) tsMeasureOld),
\* in thousandths of a centigrade per minute: the readings are in tenths and the
\* time stamps in clock units, of which a minute has Units(60000).  The
\* difference of the time stamps is taken on floats and does not wrap.
TrendPerMinute(value, valueOld, ts, tsOld) ==
    Quotient(Units(60000) * 100 * (value - valueOld), ts - tsOld)

\* No window opened yet.
NoSeed == [t |-> -1, v |-> TEMP_VALUE_NAN]

\* The windows as the calls of measureTempTrend lay them out: the first call
\* with a reading opens one, and so does every call with a reading that comes
\* PERIOD_MEASURE_TEMP_TREND or more after the latest was opened.
WindowAfter(s, value, time) ==
    IF s = NoSeed \/ Sub32(time, s.t) >= Units(PERIOD_MEASURE_TEMP_TREND)
    THEN [t |-> time, v |-> value]
    ELSE s

\* void measureTempTrend(), called in thermometer.ino only.
measureTempTrend ==
    /\ pc = "trend"
    /\ pc' = "publish"
    /\ IF variant # "thermometer" \/ Undefined(tempValue) THEN UNCHANGED varsTrend
       ELSE /\ seed' = WindowAfter(seed, tempValue, now)
            /\ IF Sub32(now, tsTrend) >= Units(PERIOD_MEASURE_TEMP_TREND) \/ tsTrend = 0
               THEN /\ tsTrend' = now
                    /\ tempTrend' = (IF HasBaseline(tsTrendOld)
                                     THEN TrendPerMinute(tempValue, trendValueOld, now, tsTrendOld)
                                     ELSE tempTrend)
                    /\ tsTrendOld' = now
                    /\ trendValueOld' = tempValue
               ELSE UNCHANGED <<tempTrend, tsTrend, tsTrendOld, trendValueOld>>
    /\ UNCHANGED <<varsBuild, now, passes, tickles, varsRssi, varsPublish, varsMeasure, varsStats, varsWatch,
                   varsBlynk, varsClouds, since>>

----------------------------------------------------------------------------
(* The commands received through Blynk and the connection probe *)

\* The commands a pass of Blynk.run() can dispatch: a virtual pin written with
\* a value.
HIGH == 1
LOW == 0
\* A value written to a virtual pin that is neither LOW nor HIGH.
ANALOG == 2
Commands == [pin : {"ResetTemp", "ResetInit", "Disconnect"}, value : {LOW, HIGH, ANALOG}]

\* Pressed with a fault: every value but LOW counts.
Pressed_NotLow(value) == value # LOW

\* param.asInt() == HIGH
Pressed(value) == value = HIGH

\* No command dispatched.
NoCommand == [pin |-> "none", value |-> LOW]

\* ResetExtremes with a fault: the minimum alone is reset.
ResetExtremes_MinOnly(value) == [min |-> value, max |-> tempValueMax]

\* ResetExtremes with a fault: the extrema return to their initial values.
ResetExtremes_Initial(value) == [min |-> TEMP_VALUE_MIN_INIT, max |-> TEMP_VALUE_MAX_INIT]

\* tempValueMin = tempValueMax = tempValue;
ResetExtremes(value) == [min |-> value, max |-> value]

\* BLYNK_WRITE(VPIN_LM35_RESET), BLYNK_WRITE(BLYNK_VPIN_BUTTON_RESET_TEMP)
WriteResetTemp(value) ==
    /\ IF Pressed(value)
       THEN /\ tempValueMin' = ResetExtremes(tempValue).min
            /\ tempValueMax' = ResetExtremes(tempValue).max
       ELSE UNCHANGED <<tempValueMin, tempValueMax>>
    /\ UNCHANGED <<varsStats, connected, reconnects>>

\* ResetCounters with a fault: the count of reconnections is left as it is.
ResetCounters_KeepReconnects(s) ==
    [s EXCEPT !.bootCount = 0, !.bootRunPeriod = 0, !.bootTimeLast = 0]

\* boots = bootRunPeriod = bootTimeLast = reconnects = 0;
ResetCounters(s) ==
    [s EXCEPT !.bootCount = 0, !.bootRunPeriod = 0, !.bootTimeLast = 0, !.reconnects = 0]

\* BLYNK_WRITE(BLYNK_VPIN_BUTTON_RESET_INIT), of thermometer01.ino only.
WriteResetInit(value) ==
    /\ IF Pressed(value) /\ variant = "thermometer01"
       THEN LET s == ResetCounters([bootCount |-> bootCount, bootRunPeriod |-> bootRunPeriod,
                                    bootTimeLast |-> bootTimeLast, reconnects |-> reconnects])
            IN  /\ bootCount' = s.bootCount
                /\ bootRunPeriod' = s.bootRunPeriod
                /\ bootTimeLast' = s.bootTimeLast
                /\ reconnects' = s.reconnects
       ELSE UNCHANGED <<bootCount, bootRunPeriod, bootTimeLast, reconnects>>
    /\ UNCHANGED <<tempValueMin, tempValueMax, timeNow, folded, connected>>

\* BLYNK_WRITE(VPIN_DISCONNECT), of thermometer.ino only.
WriteDisconnect(value) ==
    /\ connected' = (IF Pressed(value) /\ variant = "thermometer" THEN FALSE ELSE connected)
    /\ UNCHANGED <<tempValueMin, tempValueMax, varsStats, reconnects>>

\* Blynk.run(): at most one of the commands the environment sends is dispatched
\* in a pass.
blynkRun ==
    /\ pc = "blynk"
    /\ pc' = (IF variant = "thermometer" THEN "watch" ELSE "mqtt")
    /\ \/ /\ dispatched' = NoCommand
          /\ UNCHANGED <<tempValueMin, tempValueMax, varsStats, connected, reconnects>>
       \/ \E c \in env.commands :
             /\ dispatched' = c
             /\ CASE c.pin = "ResetTemp"  -> WriteResetTemp(c.value)
                  [] c.pin = "ResetInit"  -> WriteResetInit(c.value)
                  [] c.pin = "Disconnect" -> WriteDisconnect(c.value)
    /\ UNCHANGED <<varsBuild, now, passes, tickles, varsRssi, varsPublish, tempValue, tempStatus, tsMeasureTemp,
                   measured, tempValuePrev, tempStatusPrev, readNow, varsTrend, tsWatch,
                   connectIssued, delivered, mqttStatus, varsClouds, since>>

\* const String MQTT_TOPIC_SUB_RESET, MQTT_TOPIC_SUB_GET and MQTT_TOPIC_PUB_STATUS
MQTT_TOPIC_SUB_RESET == "Chalupa/Interior/Reset"
MQTT_TOPIC_SUB_GET == "Chalupa/Interior/Get"
MQTT_TOPIC_PUB_STATUS == "Chalupa/Interior/Status"

\* const String MQTT_VAR_INITIALS and MQTT_VAR_STATISTICS, as the sequence of
\* their pieces: a payload is a sequence of pieces of text and of NUL bytes.
NUL == "NUL"
MQTT_VAR_INITIALS == <<"Initials">>
MQTT_VAR_STATISTICS == <<"Statistics">>

\* The messages the broker can deliver: the topics subscribed to and another,
\* with the payloads the firmware knows, another text, and the payloads it knows
\* followed by a NUL byte and more bytes.
Messages ==
    [topic   : {MQTT_TOPIC_SUB_RESET, MQTT_TOPIC_SUB_GET, MQTT_TOPIC_PUB_STATUS},
     payload : {MQTT_VAR_INITIALS, MQTT_VAR_STATISTICS, <<"Value">>,
                MQTT_VAR_INITIALS \o <<NUL, "Value">>,
                MQTT_VAR_STATISTICS \o <<NUL, "Value">>}]

\* No message delivered.
NoMessage == [topic |-> "none", payload |-> <<>>]

\* String msgPayload(p) for the payload copied to p and closed by a NUL byte:
\* the text up to the first NUL byte.
RECURSIVE MsgPayload(_)
MsgPayload(payload) ==
    IF payload = <<>> \/ Head(payload) = NUL THEN <<>>
    ELSE <<Head(payload)>> \o MsgPayload(Tail(payload))

\* TopicEquals with a fault: every topic is taken for the one compared with.
TopicEquals_Any(msgTopic, topic) == TRUE

\* msgTopic.equals(topic)
TopicEquals(msgTopic, topic) == msgTopic = topic

\* void subscriptionMqtt(char* topic, byte* payload, unsigned int length), of
\* thermometer01.ino (1.5.0).
subscriptionMqtt(topic, payload) ==
    LET msgPayload == MsgPayload(payload)
        initials   == TopicEquals(topic, MQTT_TOPIC_SUB_RESET) /\ msgPayload = MQTT_VAR_INITIALS
        statistics == TopicEquals(topic, MQTT_TOPIC_SUB_RESET) /\ msgPayload = MQTT_VAR_STATISTICS
        status     == TopicEquals(topic, MQTT_TOPIC_SUB_GET) /\ msgPayload = MQTT_VAR_INITIALS
        s == ResetCounters([bootCount |-> bootCount, bootRunPeriod |-> bootRunPeriod,
                            bootTimeLast |-> bootTimeLast, reconnects |-> reconnects])
    IN  /\ bootCount' = (IF initials THEN s.bootCount ELSE bootCount)
        /\ bootRunPeriod' = (IF initials THEN s.bootRunPeriod ELSE bootRunPeriod)
        /\ bootTimeLast' = (IF initials THEN s.bootTimeLast ELSE bootTimeLast)
        /\ reconnects' = (IF initials THEN s.reconnects ELSE reconnects)
        /\ tempValueMin' = (IF statistics THEN ResetExtremes(tempValue).min ELSE tempValueMin)
        /\ tempValueMax' = (IF statistics THEN ResetExtremes(tempValue).max ELSE tempValueMax)
        /\ mqttStatus' = (IF status THEN mqttStatus + 1 ELSE mqttStatus)

\* if (MqttClient.isConnected()) MqttClient.loop(); in loop() of thermometer01.ino
\* (1.5.0): at most one of the messages the broker sends is delivered in a pass.
mqttLoop ==
    /\ pc = "mqtt"
    /\ pc' = "rssi"
    /\ \/ /\ delivered' = NoMessage
          /\ UNCHANGED <<bootCount, bootRunPeriod, bootTimeLast, reconnects, tempValueMin,
                         tempValueMax, mqttStatus>>
       \/ \E m \in env.messages :
             /\ delivered' = m
             /\ subscriptionMqtt(m.topic, m.payload)
    /\ UNCHANGED <<varsBuild, now, passes, tickles, varsRssi, varsPublish, tempValue, tempStatus,
                   tsMeasureTemp, measured, tempValuePrev, tempStatusPrev, readNow, varsTrend,
                   timeNow, folded, connected, tsWatch, connectIssued, dispatched, varsClouds,
                   since>>

\* Reconnected with a fault: a reconnection is counted twice.
Reconnected_Twice(count) == count + 2

\* reconnects++;
Reconnected(count) == count + 1

\* void watchConnection(); whether Particle.connect() brings the connection
\* back is drawn from env.cloud.
watchConnection ==
    /\ pc = "watch"
    /\ pc' = (IF variant = "thermometer" THEN "rssi" ELSE "blynk")
    /\ IF Sub32(now, tsWatch) >= Units(TIMEOUT_RECONNECT)
       THEN /\ tsWatch' = now
            /\ IF ~connected
               THEN /\ reconnects' = Reconnected(reconnects)
                    /\ connected' \in env.cloud
                    /\ connectIssued' = TRUE
               ELSE /\ connectIssued' = FALSE
                    /\ UNCHANGED <<reconnects, connected>>
       ELSE /\ connectIssued' = FALSE
            /\ UNCHANGED <<connected, tsWatch, reconnects>>
    /\ since' = [since EXCEPT !.watch = IF tsWatch' # tsWatch THEN 0 ELSE @]
    /\ UNCHANGED <<varsBuild, now, passes, tickles, varsRssi, varsPublish, varsMeasure, varsTrend, varsStats,
                   varsBlynk, varsClouds>>

----------------------------------------------------------------------------
(* The process: setup(), loop() and the resets *)

\* The polled tasks that run behind a period alone.
Tasks == {"particle", "thingspeak", "blynk", "watch"}

\* RunPeriod with a fault: the difference is not kept from going below 0.
RunPeriod_Signed(t, last) == t - last

\* max(0, Time.now() - bootTimeLast)
RunPeriod(t, last) == Maximum(0, t - last)

\* setup(): the boot is recorded; t is Time.now(), read twice within a second.
setup ==
    /\ pc = "setup"
    /\ pc' = "loop"
    /\ \E t \in env.epochs :
          /\ timeNow' = t
          /\ bootRunPeriod' = (IF bootCount > 0 THEN RunPeriod(t, bootTimeLast)
                               ELSE bootRunPeriod)
          /\ bootCount' = bootCount + 1
          /\ bootTimeLast' = t
    /\ UNCHANGED <<varsBuild, now, passes, tickles, varsRssi, varsPublish, varsMeasure, varsTrend, folded, varsWatch,
                   varsBlynk, varsClouds, since>>

\* Tickle with a fault: the watchdog is left alone.
Tickle_Never(count) == count

\* Watchdogs::tickle(); the first statement of loop().
Tickle(count) == count + 1

\* A pass of loop() begins, LoopMs after the pass before began; in between the
\* connection to the Particle cloud may have dropped.
Tick ==
    /\ pc = "loop"
    /\ passes < env.horizon
    /\ passes' = passes + 1
    /\ now' = (now + Units(LoopMs)) % Wrap
    /\ pc' = (CASE variant = "thermometer"    -> "blynk"
                [] variant = "thermometer01"  -> "watch"
                [] variant = "thermometer100" -> "publish100")
    /\ connected' \in (IF connected THEN env.cloud ELSE {FALSE})
    /\ tickles' = Tickle(0)
    /\ dispatched' = NoCommand
    /\ delivered' = NoMessage
    /\ mqttStatus' = 0
    /\ since' = [t \in Tasks |-> since[t] + Units(LoopMs)]
    /\ UNCHANGED <<varsBuild, varsRssi, varsPublish, varsMeasure, varsTrend, varsStats, tsWatch,
                   reconnects, connectIssued, varsClouds>>

\* The globals and statics that are not retained, as the start of the process
\* initializes them.
InitProcess ==
    /\ now = 0
    /\ pc = "setup"
    /\ particlePublishAfterBoot = TRUE
    /\ sendMsgNoInits = 0
    /\ sendMsgNoValues = 0
    /\ tsPublish = 0
    /\ batchMsgs = 0
    /\ batch = <<>>
    /\ sentInits = <<>>
    /\ sentValues = <<>>
    /\ anyFail = FALSE
    /\ bootDoneNow = FALSE
    /\ bootDoneBefore = FALSE
    /\ startMsgNoValues = 0
    /\ pendingBefore = [p \in {"Inits", "Values"} |-> -1]
    /\ tempValue = (IF variant = "thermometer" THEN TEMP_VALUE_NAN ELSE TEMP_VALUE_INIT_01)
    /\ tempStatus = 0
    /\ tsMeasureTemp = 0
    /\ measured = 0
    /\ tempValuePrev = TEMP_VALUE_NAN
    /\ tempStatusPrev = 0
    /\ readNow = FALSE
    /\ tempTrend = 0
    /\ tsTrend = 0
    /\ tsTrendOld = 0
    /\ trendValueOld = 0
    /\ seed = NoSeed
    /\ dispatched = NoCommand
    /\ connected = TRUE
    /\ tsWatch = 0
    /\ tsThingspeak = 0
    /\ thingspeakResult = 0
    /\ tsBlynk = 0
    /\ blynkStatics = FALSE
    /\ blynkStatusOld = 0
    /\ blynkValueOld = 0
    /\ ledTempInc = FALSE
    /\ ledTempDec = FALSE
    /\ notified = -1
    /\ notifyLog = <<>>
    /\ tickles = 0
    /\ connectIssued = FALSE
    /\ delivered = NoMessage
    /\ mqttStatus = 0
    /\ loopIters = [p \in {"Inits", "Values"} |-> 0]
    /\ rssiValue = 0
    /\ efRssi = Unfiltered
    /\ tsMeasureRssi = 0
    /\ rssiFiltered = <<>>
    /\ since = [t \in Tasks |-> 0]

\* The retained variables as the first power-up initializes them.
InitRetained ==
    /\ bootCount = 0
    /\ bootTimeLast = 0
    /\ bootRunPeriod = 0
    /\ timeNow = 0
    /\ folded = FALSE
    /\ tempValueMin = (IF variant = "thermometer" THEN TEMP_VALUE_MIN_INIT
                       ELSE TEMP_VALUE_MIN_INIT_01)
    /\ tempValueMax = (IF variant = "thermometer" THEN TEMP_VALUE_MAX_INIT
                       ELSE TEMP_VALUE_MAX_INIT_01)

\* The state after the globals and statics are initialized, at the first power-up.
InitState ==
    /\ passes = 0
    /\ reconnects = 0
    /\ InitProcess
    /\ InitRetained

\* The start of the process as a step: the globals and statics that are not
\* retained are initialized.
Restart ==
    /\ now' = 0
    /\ pc' = "setup"
    /\ particlePublishAfterBoot' = TRUE
    /\ sendMsgNoInits' = 0
    /\ sendMsgNoValues' = 0
    /\ tsPublish' = 0
    /\ batchMsgs' = 0
    /\ batch' = <<>>
    /\ sentInits' = <<>>
    /\ sentValues' = <<>>
    /\ anyFail' = FALSE
    /\ bootDoneNow' = FALSE
    /\ bootDoneBefore' = FALSE
    /\ startMsgNoValues' = 0
    /\ pendingBefore' = [p \in {"Inits", "Values"} |-> -1]
    /\ tempValue' = (IF variant = "thermometer" THEN TEMP_VALUE_NAN ELSE TEMP_VALUE_INIT_01)
    /\ tempStatus' = 0
    /\ tsMeasureTemp' = 0
    /\ measured' = 0
    /\ tempValuePrev' = TEMP_VALUE_NAN
    /\ tempStatusPrev' = 0
    /\ readNow' = FALSE
    /\ tempTrend' = 0
    /\ tsTrend' = 0
    /\ tsTrendOld' = 0
    /\ trendValueOld' = 0
    /\ seed' = NoSeed
    /\ dispatched' = NoCommand
    /\ connected' = TRUE
    /\ tsWatch' = 0
    /\ tsThingspeak' = 0
    /\ thingspeakResult' = 0
    /\ tsBlynk' = 0
    /\ blynkStatics' = FALSE
    /\ blynkStatusOld' = 0
    /\ blynkValueOld' = 0
    /\ ledTempInc' = FALSE
    /\ ledTempDec' = FALSE
    /\ notified' = -1
    /\ notifyLog' = <<>>
    /\ tickles' = 0
    /\ connectIssued' = FALSE
    /\ delivered' = NoMessage
    /\ mqttStatus' = 0
    /\ loopIters' = [p \in {"Inits", "Values"} |-> 0]
    /\ rssiValue' = 0
    /\ efRssi' = Unfiltered
    /\ tsMeasureRssi' = 0
    /\ rssiFiltered' = <<>>
    /\ since' = [t \in Tasks |-> 0]

\* The power-up as a step: the retained variables are initialized.
PowerUp ==
    /\ bootCount' = 0
    /\ bootTimeLast' = 0
    /\ bootRunPeriod' = 0
    /\ timeNow' = 0
    /\ folded' = FALSE
    /\ tempValueMin' = (IF variant = "thermometer" THEN TEMP_VALUE_MIN_INIT
                       ELSE TEMP_VALUE_MIN_INIT_01)
    /\ tempValueMax' = (IF variant = "thermometer" THEN TEMP_VALUE_MAX_INIT
                       ELSE TEMP_VALUE_MAX_INIT_01)

\* KeptReconnects with a fault: reconnects is retained in neither sketch.
KeptReconnects_Never(count) == 0

\* reconnects over a reset with the power kept: unsigned int reconnects; in
\* thermometer.ino, retained int ... reconnects; in thermometer01.ino.
KeptReconnects(count) == IF variant = "thermometer01" THEN count ELSE 0

\* The process is reset, by the watchdog or otherwise, with the power kept: it
\* starts anew, and the retained variables keep their values.  reconnects is
\* retained in thermometer01.ino only.
SoftReset ==
    /\ env.resets
    /\ pc # "setup"
    /\ bootCount < MaxBoots
    /\ UNCHANGED <<varsBuild, passes, varsStats, tempValueMin, tempValueMax>>
    /\ reconnects' = KeptReconnects(reconnects)
    /\ Restart

\* The power is lost and comes back: the retained variables are initialized too.
PowerLoss ==
    /\ env.resets
    /\ pc # "setup"
    /\ UNCHANGED <<varsBuild, passes>>
    /\ reconnects' = 0
    /\ Restart
    /\ PowerUp

\* The readings on each threshold of a table and a tenth of a centigrade below
\* and above it.
Readings(table) == UNION { {table[i] - 1, table[i], table[i] + 1} : i \in DOMAIN table }

\* An environment in which nothing but the publishing to Particle can fail: no
\* command arrives, the connection holds, and loop() makes horizon passes.
\* settled is the number of value messages sent when the cloud started to accept
\* every event, -1 while it has not.
Quiet(horizon) ==
    [commands |-> {}, messages |-> {}, cloud |-> {TRUE}, accepts |-> BOOLEAN,
     thingspeak |-> {200}, epochs |-> {1000}, resets |-> FALSE, horizon |-> horizon,
     settled |-> -1, rssi |-> {-60}]

\* The passes of loop().
NextLoop ==
    Tick \/ blynkRun \/ watchConnection \/ measureRssi \/ measureTemp \/ measureTempTrend \/ publish

Next == setup \/ NextLoop

\* The publish scheduler: every build that publishes to Particle, at a steady
\* room temperature.
InitPublish ==
    /\ build \in ParticleBuilds
    /\ ladder = TEMP_BUCKET
    /\ variant = "thermometer"
    /\ sensor = {TEMP_BUCKET[4]}
    /\ env = Quiet(MaxLoops)
    /\ InitState

SpecPublish == InitPublish /\ [][Next]_vars

\* The measurement: either threshold table, every reading around its thresholds,
\* in the build that does not publish to Particle.
InitMeasure ==
    /\ build = NoParticleBuild
    /\ ladder \in {TEMP_BUCKET, TEMP_BUCKET_01}
    /\ variant = "thermometer"
    /\ sensor = Readings(ladder)
    /\ env = Quiet(MeasureLoops)
    /\ InitState

SpecMeasure == InitMeasure /\ [][Next]_vars

\* The trend: thermometer.ino at readings a degree apart, the filter being able
\* to return the value that stands for no reading.
InitTrend ==
    /\ build = NoParticleBuild
    /\ ladder = TEMP_BUCKET
    /\ variant = "thermometer"
    /\ sensor = {TEMP_VALUE_NAN, TEMP_BUCKET[4], TEMP_BUCKET[4] + 10}
    /\ env = Quiet(TrendLoops)
    /\ InitState

SpecTrend == InitTrend /\ [][Next]_vars

\* The statistics: both sketches, with commands arriving through Blynk, the
\* connection dropping, the clock of Time.now() set back and forth, and resets.
\* loop() makes too few passes for ThingSpeak and Blynk to be published to.
InitStats ==
    /\ build = NoParticleBuild
    /\ ladder = TEMP_BUCKET
    /\ variant \in {"thermometer", "thermometer01"}
    /\ sensor = {TEMP_BUCKET[4], TEMP_BUCKET[4] + 10}
    /\ env = [commands |-> Commands, messages |-> {}, cloud |-> BOOLEAN, accepts |-> {TRUE},
              thingspeak |-> {200}, epochs |-> {1000, 1100}, resets |-> TRUE,
              horizon |-> StatsLoops, settled |-> -1, rssi |-> {-60}]
    /\ InitState

NextStats == Next \/ mqttLoop \/ SoftReset \/ PowerLoss

SpecStats == InitStats /\ [][NextStats]_vars

\* The broker: thermometer01.ino (1.5.0) with messages arriving from the broker
\* and the connection to the Particle cloud dropping.
InitMqtt ==
    /\ build = NoParticleBuild
    /\ ladder = TEMP_BUCKET_01
    /\ variant = "thermometer01"
    /\ sensor = {TEMP_BUCKET_01[3], TEMP_BUCKET_01[3] + 10}
    /\ env = [Quiet(StatsLoops) EXCEPT !.messages = Messages, !.cloud = BOOLEAN]
    /\ InitState

NextMqtt == Next \/ mqttLoop

SpecMqtt == InitMqtt /\ [][NextMqtt]_vars

\* The publishing to Blynk: both sketches, each with its threshold table, at
\* readings on a threshold, a tenth of a centigrade below it and TEMP_VALUE_MARGIN
\* and more above it.
InitBlynk ==
    /\ build = NoParticleBuild
    /\ variant \in {"thermometer", "thermometer01"}
    /\ ladder = (IF variant = "thermometer" THEN TEMP_BUCKET ELSE TEMP_BUCKET_01)
    /\ sensor = {ladder[3] - 1, ladder[3], ladder[3] + 2 * TEMP_VALUE_MARGIN}
    /\ env = Quiet(BlynkLoops)
    /\ InitState

SpecBlynk == InitBlynk /\ [][NextMqtt]_vars

\* The surroundings between two passes of loop(): from here on the cloud accepts
\* every event, so that every Particle.publish call returns true.
Settle ==
    /\ pc = "loop"
    /\ env.accepts = BOOLEAN
    /\ env' = [env EXCEPT !.accepts = {TRUE}, !.settled = Len(sentValues),
                          !.horizon = passes + Remaining]
    /\ UNCHANGED <<build, ladder, variant, sensor, now, passes, pc, tickles, varsRssi, varsPublish,
                   varsMeasure, varsTrend, varsStats, varsWatch, varsBlynk, varsClouds,
                   since>>

\* The firmware moves on: setup() returns, loop() is called again as soon as it
\* has returned, and each call of loop() is followed by the next.  These are the
\* steps of Next, each of which moves pc on; but for Tick, which needs a pass to
\* be left, each is enabled wherever pc stands.
Step ==
    /\ pc = "loop" => passes < env.horizon
    /\ pc' \in {"setup", "loop", "blynk", "watch", "mqtt", "rssi", "measure", "trend", "publish"} \ {pc}

\* The publish scheduler called for ever: every build that publishes to
\* Particle, the cloud refusing events at will until it settles.  The firmware
\* calls loop() again as soon as loop() returns, and each step of a pass is
\* followed by the next, which is the fairness of the steps of the firmware.
InitFair ==
    /\ build \in ParticleBuilds
    /\ ladder = TEMP_BUCKET
    /\ variant = "thermometer"
    /\ sensor = {TEMP_BUCKET[4]}
    /\ env = Quiet(FairLoops)
    /\ InitState

NextFair == Next \/ Settle

SpecFair == InitFair /\ [][NextFair]_vars /\ WF_pc(Step)

\* The signal strength: both sketches in the build that does not publish to
\* Particle, WiFi.RSSI() returning signal strengths and the error code 2.
InitRssi ==
    /\ build = NoParticleBuild
    /\ ladder = TEMP_BUCKET
    /\ variant \in {"thermometer", "thermometer01"}
    /\ sensor = {TEMP_BUCKET[4]}
    /\ env = [Quiet(RssiLoops) EXCEPT !.rssi = {-70, -50, 2}]
    /\ InitState

SpecRssi == InitRssi /\ [][NextMqtt]_vars

\* The clock value a minute before the clock wraps.
LateClock == Wrap - Units(PERIOD_MEASURE_TEMP_TREND)

\* A state late in a long run of thermometer.ino at a steady room temperature,
\* a minute before the clock wraps: a pass of loop() has just ended in which
\* every polled task ran but the connection probe, which ran in the pass before.
\* The program gets there because a pass may take any
\* time below the watchdog timeout, which lets the passes in which the tasks
\* run drift to any clock value.  The histories begin in this state.
InitLate ==
    /\ build = [particle |-> TRUE, debug |-> TRUE, thingspeak |-> TRUE]
    /\ ladder = TEMP_BUCKET
    /\ variant = "thermometer"
    /\ sensor = {TEMP_BUCKET[4], TEMP_BUCKET[4] + 10}
    /\ env = [Quiet(LateLoops) EXCEPT !.accepts = {TRUE}]
    /\ now = LateClock
    /\ pc = "loop"
    /\ passes = 0
    /\ particlePublishAfterBoot = FALSE
    /\ sendMsgNoInits = 0
    /\ sendMsgNoValues = 0
    /\ tsPublish = LateClock
    /\ batchMsgs = 0
    /\ batch = <<>>
    /\ sentInits = <<>>
    /\ sentValues = <<>>
    /\ anyFail = FALSE
    /\ bootDoneNow = FALSE
    /\ bootDoneBefore = TRUE
    /\ startMsgNoValues = 0
    /\ pendingBefore = [p \in {"Inits", "Values"} |-> -1]
    /\ tempValue = TEMP_BUCKET[4]
    /\ tempStatus = 4
    /\ tempValueMin = TEMP_BUCKET[4]
    /\ tempValueMax = TEMP_BUCKET[4]
    /\ tsMeasureTemp = LateClock
    /\ measured = 2
    /\ tempValuePrev = TEMP_BUCKET[4]
    /\ tempStatusPrev = 4
    /\ readNow = TRUE
    /\ folded = TRUE
    /\ tempTrend = 0
    /\ tsTrend = LateClock
    /\ tsTrendOld = LateClock
    /\ trendValueOld = TEMP_BUCKET[4]
    /\ seed = [t |-> LateClock, v |-> TEMP_BUCKET[4]]
    /\ bootCount = 1
    /\ bootTimeLast = 1000
    /\ bootRunPeriod = 0
    /\ timeNow = 1000
    /\ reconnects = 0
    /\ dispatched = NoCommand
    /\ connected = TRUE
    /\ tsWatch = LateClock - Units(LoopMs)
    /\ tsThingspeak = LateClock
    /\ thingspeakResult = 200
    /\ tsBlynk = LateClock
    /\ blynkStatics = TRUE
    /\ blynkStatusOld = 4
    /\ blynkValueOld = TEMP_BUCKET[4]
    /\ ledTempInc = FALSE
    /\ ledTempDec = FALSE
    /\ notified = -1
    /\ notifyLog = <<>>
    /\ tickles = 0
    /\ connectIssued = FALSE
    /\ delivered = NoMessage
    /\ mqttStatus = 0
    /\ loopIters = [p \in {"Inits", "Values"} |-> 0]
    /\ rssiValue = -60
    /\ efRssi = [init |-> FALSE, value |-> -600]
    /\ tsMeasureRssi = LateClock
    /\ rssiFiltered = <<-60>>
    /\ since = [t \in Tasks |-> IF t = "watch" THEN Units(LoopMs) ELSE 0]

SpecLate == InitLate /\ [][NextLoop]_vars

----------------------------------------------------------------------------
(* The sketch 1.0.0 (src/unnamed/part_001) *)

\* void publishParticle() of the sketch 1.0.0, the body run when the period has
\* elapsed: the boot events while stateAfterBoot is set (kept here in
\* particlePublishAfterBoot), then the two value events, whose results are not
\* looked at.  res[j] is the result of the j-th Particle.publish call of the pass.
publishParticle100(res) ==
    LET boot   == Published(<<>>, "Inits", 0, res[1])
        sketch == IF build.debug /\ res[1] THEN Published(boot, "Inits", 1, res[2]) ELSE boot
        inits  == IF particlePublishAfterBoot THEN sketch ELSE <<>>
        sent   == \A j \in DOMAIN inits : inits[j].ok
        rssi   == Published(inits, "Values", 0, res[Len(inits) + 1])
    IN  [afterBoot |-> particlePublishAfterBoot /\ ~sent,
         log       |-> Published(rssi, "Values", 1, res[Len(rssi) + 1])]

\* void publishThingspeak() of the sketch 1.0.0, the body run when the period has
\* elapsed: after ThingSpeak.writeFields the build with PHOTON_PUBLISH_DEBUG
\* publishes the event ThingSpeakResult; log holds the Particle.publish calls of
\* the pass so far.
publishThingspeak100(log, res) ==
    IF build.debug THEN Published(log, "Debug", 0, res[Len(log) + 1]) ELSE log

\* void publish() of the sketch 1.0.0 built without BLYNK_CLOUD: publishParticle()
\* and publishThingspeak(), each behind its period.
publish100 ==
    /\ pc = "publish100"
    /\ pc' = "loop"
    /\ \E res \in [1..MaxAttempts -> env.accepts] :
          LET particleDue   == Sub32(now, tsPublish) >= Units(PERIOD_PUBLISH_PARTICLE)
              thingspeakDue == Sub32(now, tsThingspeak) >= Units(PERIOD_PUBLISH_THINGSPEAK)
              particle == IF particleDue THEN publishParticle100(res)
                          ELSE [afterBoot |-> particlePublishAfterBoot, log |-> <<>>]
              log      == IF thingspeakDue THEN publishThingspeak100(particle.log, res)
                          ELSE particle.log
          IN  /\ tsPublish' = (IF particleDue THEN now ELSE tsPublish)
              /\ tsThingspeak' = (IF thingspeakDue THEN now ELSE tsThingspeak)
              /\ particlePublishAfterBoot' = particle.afterBoot
              /\ batch' = log
              /\ sentInits' = sentInits \o Successes(log, "Inits")
              /\ sentValues' = sentValues \o Successes(log, "Values")
              /\ anyFail' = (anyFail \/ \E j \in DOMAIN log : ~log[j].ok)
              /\ bootDoneBefore' = ~particlePublishAfterBoot
              /\ bootDoneNow' = (particlePublishAfterBoot /\ ~particle.afterBoot)
    /\ thingspeakResult' \in (IF tsThingspeak' # tsThingspeak THEN env.thingspeak
                              ELSE {thingspeakResult})
    /\ since' = [since EXCEPT !.particle   = IF tsPublish' # tsPublish THEN 0 ELSE @,
                              !.thingspeak = IF tsThingspeak' # tsThingspeak THEN 0 ELSE @]
    /\ UNCHANGED <<varsBuild, now, passes, tickles, varsRssi, sendMsgNoInits, sendMsgNoValues, batchMsgs,
                   startMsgNoValues, pendingBefore, loopIters, varsMeasure, varsTrend, varsStats,
                   varsWatch, varsBlynk, tsBlynk, blynkStatics, blynkStatusOld, blynkValueOld,
                   ledTempInc, ledTempDec, notified, notifyLog>>

\* The sketch 1.0.0 after setup() has recorded the first boot since the power-up:
\* the builds with and without PHOTON_PUBLISH_DEBUG, publishing to Particle and
\* to ThingSpeak.  The readings are not followed: the events carry them, and
\* nothing of the publishing depends on them.
InitFirst ==
    /\ build \in {[particle |-> TRUE, debug |-> d, thingspeak |-> TRUE] : d \in BOOLEAN}
    /\ ladder = TEMP_BUCKET
    /\ variant = "thermometer100"
    /\ sensor = {}
    /\ env = Quiet(FirstLoops)
    /\ now = 0
    /\ pc = "loop"
    /\ passes = 0
    /\ particlePublishAfterBoot = TRUE
    /\ sendMsgNoInits = 0
    /\ sendMsgNoValues = 0
    /\ tsPublish = 0
    /\ batchMsgs = 0
    /\ batch = <<>>
    /\ sentInits = <<>>
    /\ sentValues = <<>>
    /\ anyFail = FALSE
    /\ bootDoneNow = FALSE
    /\ bootDoneBefore = FALSE
    /\ startMsgNoValues = 0
    /\ pendingBefore = [p \in {"Inits", "Values"} |-> -1]
    /\ tempValue = 0
    /\ tempStatus = 0
    /\ tempValueMin = TEMP_VALUE_MIN_INIT
    /\ tempValueMax = TEMP_VALUE_MAX_INIT
    /\ tsMeasureTemp = 0
    /\ measured = 0
    /\ tempValuePrev = TEMP_VALUE_NAN
    /\ tempStatusPrev = 0
    /\ readNow = FALSE
    /\ folded = FALSE
    /\ tempTrend = 0
    /\ tsTrend = 0
    /\ tsTrendOld = 0
    /\ trendValueOld = 0
    /\ seed = NoSeed
    /\ bootCount = 1
    /\ bootTimeLast = 1000
    /\ bootRunPeriod = 0
    /\ timeNow = 1000
    /\ reconnects = 0
    /\ dispatched = NoCommand
    /\ connected = TRUE
    /\ tsWatch = 0
    /\ tsThingspeak = 0
    /\ thingspeakResult = 0
    /\ tsBlynk = 0
    /\ blynkStatics = FALSE
    /\ blynkStatusOld = 0
    /\ blynkValueOld = 0
    /\ ledTempInc = FALSE
    /\ ledTempDec = FALSE
    /\ notified = -1
    /\ notifyLog = <<>>
    /\ tickles = 0
    /\ connectIssued = FALSE
    /\ delivered = NoMessage
    /\ mqttStatus = 0
    /\ loopIters = [p \in {"Inits", "Values"} |-> 0]
    /\ rssiValue = 0
    /\ efRssi = Unfiltered
    /\ tsMeasureRssi = 0
    /\ rssiFiltered = <<>>
    /\ since = [t \in Tasks |-> 0]


NextFirst == Tick \/ publish100

SpecFirst == InitFirst /\ [][NextFirst]_vars

----------------------------------------------------------------------------
(* Properties of the Particle publish scheduler, checked under SpecPublish *)

\* The number of elements of seq equal to m.
Count(seq, m) == Cardinality({ j \in DOMAIN seq : seq[j] = m })

\* No element occurs twice in seq.
NoDup(seq) == \A i, j \in DOMAIN seq : seq[i] = seq[j] => i = j

\* Every Particle.publish call of the latest run succeeded.
AllOk == \A j \in DOMAIN batch : batch[j].ok

\* sendMsgNo of a phase.
SendMsgNo(phase) == IF phase = "Inits" THEN sendMsgNoInits ELSE sendMsgNoValues

\* C1: the Particle.publish calls that succeed within one run of publishParticle,
\* boot events and value events together, are never more than PARTICLE_BATCH_LIMIT.
C1_Quota ==
    Len(Successes(batch, "Inits")) + Len(Successes(batch, "Values")) <= PARTICLE_BATCH_LIMIT

\* A run that published boot events and value events, a full batch together.
C1_Witness ==
    /\ Successes(batch, "Inits") # <<>>
    /\ Successes(batch, "Values") # <<>>
    /\ Len(Successes(batch, "Inits")) + Len(Successes(batch, "Values")) = PARTICLE_BATCH_LIMIT

\* C2: when a publish of message i of a phase fails, sendMsgNo of that phase is i
\* when publishParticle returns, and the next publish that phase attempts, in the
\* next run in which it attempts any, is message i again.
C2_RetryAfterFailure ==
    /\ \A j \in DOMAIN batch : ~batch[j].ok => SendMsgNo(batch[j].phase) = batch[j].msgNo
    /\ \A p \in {"Inits", "Values"} :
          (pendingBefore[p] # -1 /\ Attempts(batch, p) # <<>>)
             => Attempts(batch, p)[1].msgNo = pendingBefore[p]

\* The scenario of the value table of 3: message 1 failed, the next run
\* publishes message 1 first, and then fails somewhere again.
C2_Witness ==
    /\ NumValues = 3
    /\ pendingBefore["Values"] = 1
    /\ Attempts(batch, "Values") # <<>>
    /\ Attempts(batch, "Values")[1].msgNo = 1
    /\ pendingBefore["Inits"] # -1
    /\ Attempts(batch, "Inits") # <<>>
    /\ ~AllOk

\* C3: the value messages published successfully, over all runs, are a prefix of
\* 0, 1, ..., n-1, 0, 1, ...: none is skipped, none is out of order.
C3_InOrderNoSkip ==
    \A j \in DOMAIN sentValues : sentValues[j] = (j - 1) % NumValues

\* C4: as long as every publish succeeds, every message of a table has been
\* published once before any message of that table is published a second time.
C4_FairRotation ==
    ~anyFail =>
        /\ (\E m \in 0..(NumValues - 1) : Count(sentValues, m) >= 2)
              => \A m \in 0..(NumValues - 1) : Count(sentValues, m) >= 1
        /\ (\E m \in 0..(NumValues - 1) : Count(sentValues, m) >= 3)
              => \A m \in 0..(NumValues - 1) : Count(sentValues, m) >= 2
        /\ (\E m \in 0..(NumInits - 1) : Count(sentInits, m) >= 2)
              => \A m \in 0..(NumInits - 1) : Count(sentInits, m) >= 1

\* Every publish succeeded and a value message has been published a second time.
C4_Witness ==
    /\ ~anyFail
    /\ \E m \in 0..(NumValues - 1) : Count(sentValues, m) >= 2
    /\ Len(sentInits) = NumInits

\* C5: each boot message is published successfully at most once; once
\* particlePublishAfterBoot is false it stays false, and a run that begins with
\* it false attempts no boot message.
C5_BootOnce ==
    [][ /\ NoDup(sentInits')
        /\ (bootDoneBefore' => Attempts(batch', "Inits") = <<>>)
        /\ (~particlePublishAfterBoot => ~particlePublishAfterBoot') ]_vars

\* A run after the boot phase is over, in which a publish fails, all boot
\* messages having been published.
C5_Witness ==
    /\ bootDoneBefore
    /\ ~AllOk
    /\ Len(sentInits) = NumInits
    /\ NumInits > 1

\* C6: no value message is published while particlePublishAfterBoot is still
\* true; in a run in which a boot publish fails no value message is published.
C6_BootBeforeValues ==
    /\ Successes(batch, "Values") # <<>> => ~particlePublishAfterBoot
    /\ (\E j \in DOMAIN batch : batch[j].phase = "Inits" /\ ~batch[j].ok)
          => Successes(batch, "Values") = <<>>

\* C7: in a run in which the boot phase ends after k boot messages, every publish
\* succeeding, the value phase publishes PARTICLE_BATCH_LIMIT - k messages: the
\* end of the boot phase takes nothing from the batch.
C7_QuotaHandoff ==
    (bootDoneNow /\ AllOk)
       => Len(Successes(batch, "Values"))
             = PARTICLE_BATCH_LIMIT - Len(Successes(batch, "Inits"))

\* C8 as stated: with a value table of 3, sendMsgNo = 0, the whole batch left and
\* every publish succeeding, a run publishes 0, 1, 2, 0 and returns with
\* sendMsgNo = 1.
C8_ShortTableAsStated ==
    (NumValues = 3 /\ bootDoneBefore /\ startMsgNoValues = 0 /\ batch # <<>> /\ AllOk)
       => /\ Successes(batch, "Values") = <<0, 1, 2, 0>>
          /\ sendMsgNoValues = 1

\* C8 as amended: with a value table of 3, sendMsgNo = 0, the whole batch left
\* and every publish succeeding, a run publishes 0, 1, 2 and no message a second
\* time, and returns with sendMsgNo 0 or 1.
C8_ShortTable ==
    (NumValues = 3 /\ bootDoneBefore /\ startMsgNoValues = 0 /\ batch # <<>> /\ AllOk)
       => /\ Successes(batch, "Values") = <<0, 1, 2>>
          /\ sendMsgNoValues \in {0, 1}

\* Such a run.
C8_Witness ==
    /\ NumValues = 3
    /\ bootDoneBefore
    /\ startMsgNoValues = 0
    /\ AllOk
    /\ Len(batch) = 3

----------------------------------------------------------------------------
(* Properties of the measurement, checked under SpecMeasure *)

\* The buckets whose threshold value has reached.
Reached(value) == { i \in DOMAIN ladder : value >= ladder[i] }

\* C9: after measureTemp has produced a reading, tempStatus is 0 when tempValue
\* is below the first threshold and otherwise one more than the greatest index
\* (from 0) of a threshold that tempValue has reached; it is an index of the
\* status labels.
C9_Classification ==
    measured > 0 =>
        /\ tempValue < ladder[1] => tempStatus = 0
        /\ tempValue >= ladder[1] =>
              /\ tempStatus \in Reached(tempValue)
              /\ \A i \in Reached(tempValue) : i <= tempStatus
        /\ tempStatus \in 0..Len(ladder)

\* A reading right on an inner threshold.
C9_Witness ==
    /\ measured > 0
    /\ tempValue = ladder[3]
    /\ tempStatus = 3

\* C10: of two readings the greater one never has the smaller status.
C10_Monotone ==
    measured = 2 =>
        /\ tempValuePrev <= tempValue => tempStatusPrev <= tempStatus
        /\ tempValue <= tempValuePrev => tempStatus <= tempStatusPrev

\* Two readings in different buckets.
C10_Witness ==
    /\ measured = 2
    /\ tempValuePrev < tempValue
    /\ tempStatusPrev < tempStatus
    /\ tempStatusPrev > 0

----------------------------------------------------------------------------
(* Properties of the trend *)

\* The call of measureTempTrend that is about to run has a reading.
TrendCall == pc = "trend" /\ variant = "thermometer" /\ ~(tempValue = TEMP_VALUE_NAN)

\* The rate in thousandths of a centigrade per minute of a change from reading b
\* at clock time t0 to reading c at the later clock time t1.
Rate(b, t0, c, t1) == (Units(60000) * 100 * (c - b)) \div (t1 - t0)

\* C11: when the window was opened with reading b at clock time t0, whatever t0
\* is, and measureTempTrend is called at clock time t1 >= t0 +
\* PERIOD_MEASURE_TEMP_TREND with reading c, tempTrend becomes
\* 60000 * (c - b) / (t1 - t0).
C11_TrendRate ==
    [][ (TrendCall /\ seed # NoSeed /\ now - seed.t >= Units(PERIOD_MEASURE_TEMP_TREND))
           => tempTrend' = Rate(seed.v, seed.t, tempValue, now) ]_vars

\* C12: the first call of measureTempTrend with a reading records the baseline
\* and leaves tempTrend as it is; a later call less than
\* PERIOD_MEASURE_TEMP_TREND after the window was opened leaves tempTrend, the
\* start of the window and the baseline as they are; a call after that opens a
\* window at the current time with the current reading as baseline.
C12_TrendWindow ==
    [][ TrendCall =>
          /\ seed = NoSeed =>
                /\ tempTrend' = tempTrend
                /\ tsTrendOld' = now
                /\ trendValueOld' = tempValue
          /\ (seed # NoSeed /\ Sub32(now, seed.t) < Units(PERIOD_MEASURE_TEMP_TREND)) =>
                UNCHANGED <<tempTrend, tsTrendOld, trendValueOld>>
          /\ (seed # NoSeed /\ Sub32(now, seed.t) >= Units(PERIOD_MEASURE_TEMP_TREND)) =>
                /\ tsTrendOld' = now
                /\ trendValueOld' = tempValue ]_vars

\* C13: a call of measureTempTrend while tempValue is TEMP_VALUE_NAN changes
\* nothing: tempTrend, the time stamps and the baseline stay as they are.
C13_TrendUndefined ==
    [][ (pc = "trend" /\ tempValue = TEMP_VALUE_NAN)
           => UNCHANGED <<tempTrend, tsTrend, tsTrendOld, trendValueOld>> ]_vars

\* measureTempTrend has returned from a call with tempValue TEMP_VALUE_NAN, made
\* a period or more after the baseline was recorded.
C13_Witness ==
    /\ pc = "publish"
    /\ tempValue = TEMP_VALUE_NAN
    /\ tsTrendOld > 0
    /\ Sub32(now, tsTrend) >= Units(PERIOD_MEASURE_TEMP_TREND)

----------------------------------------------------------------------------
(* Properties of the statistics in retained memory, checked under SpecStats *)

\* The command that resets the extrema, written HIGH.
ResetTempHigh == [pin |-> "ResetTemp", value |-> HIGH]

\* The command that resets the boot counters, written HIGH.
ResetInitHigh == [pin |-> "ResetInit", value |-> HIGH]

\* C14: every reading that measureTemp produces, the first one after the start
\* of the process included, is folded into the extrema: tempValueMin becomes the
\* smaller of its old value and tempValue, tempValueMax the greater of its old
\* value and tempValue.
C14_Fold ==
    [][ (pc = "measure" /\ readNow')
           => /\ tempValueMin' = (IF tempValue' < tempValueMin THEN tempValue' ELSE tempValueMin)
              /\ tempValueMax' = (IF tempValue' > tempValueMax THEN tempValue' ELSE tempValueMax)
      ]_vars

\* The first reading after a reset that kept the power, folded into extrema that
\* lie on either side of it.
C14_Witness ==
    /\ pc = "trend"
    /\ readNow
    /\ measured = 1
    /\ bootCount >= 2
    /\ tempValueMin < tempValueMax

\* C15: once a reading has been folded, tempValueMin <= tempValueMax, whatever
\* measurements, resets of the extrema, resets of the boot counters and resets of
\* the process follow.
C15_ExtremaOrdered == folded => tempValueMin <= tempValueMax

\* A process started by a reset that kept the power: the extrema were reset by
\* command in this pass, and the reading folded after that moved them apart.
C15_Witness ==
    /\ folded
    /\ bootCount >= 2
    /\ dispatched = ResetTempHigh
    /\ pc = "publish"
    /\ tempValueMin < tempValueMax

\* C16: the command that resets the extrema sets tempValueMin and tempValueMax
\* both to tempValue; when the reading folded right after it equals that value
\* the extrema are still that value; and folding the reading that was folded
\* last once more leaves the extrema as they are.
C16_ResetExtremes ==
    /\ [](/\ (dispatched = ResetTempHigh /\ pc \in {"watch", "measure"})
                => (tempValueMin = tempValue /\ tempValueMax = tempValue)
          /\ (dispatched = ResetTempHigh /\ pc = "trend" /\ readNow
                /\ tempValue = tempValuePrev)
                => (tempValueMin = tempValue /\ tempValueMax = tempValue))
    /\ [][ (pc = "measure" /\ measured > 0 /\ readNow' /\ tempValue' = tempValue)
              => UNCHANGED <<tempValueMin, tempValueMax>> ]_vars

\* The extrema were apart, were reset by command, and the reading folded right
\* after equals the one they were reset to.
C16_Witness ==
    /\ dispatched = ResetTempHigh
    /\ pc = "trend"
    /\ readNow
    /\ measured = 2
    /\ tempValue = tempValuePrev
    /\ tempValueMin = tempValue
    /\ tempValueMax = tempValue

\* C17: the command that resets the boot counters (thermometer01.ino) sets the
\* boot count, the last run period and the count of reconnections to 0 and
\* leaves the extrema, tempValue and the state of the publish scheduler as they
\* are.
C17_ResetCounters ==
    [][ (pc = "blynk" /\ variant = "thermometer01" /\ dispatched' = ResetInitHigh)
           => /\ bootCount' = 0
              /\ bootRunPeriod' = 0
              /\ reconnects' = 0
              /\ UNCHANGED <<tempValueMin, tempValueMax, tempValue,
                             particlePublishAfterBoot, sendMsgNoInits, sendMsgNoValues>>
      ]_vars

\* The counters reset in the pass in which a reconnection was counted, the
\* extrema being apart.
C17_Witness ==
    /\ variant = "thermometer01"
    /\ dispatched = ResetInitHigh
    /\ pc = "measure"
    /\ tsWatch = now
    /\ ~connected
    /\ bootCount = 0
    /\ reconnects = 0
    /\ tempValueMin < tempValueMax

\* C18: setup() started with a boot count c, a last boot time t and Time.now()
\* returning n sets the last run period to max(0, n - t) when c > 0 and leaves it
\* otherwise, then the boot count to c + 1 and the last boot time to n; the last
\* run period is never negative.
C18_RecordBoot ==
    /\ [][ pc = "setup"
              => /\ bootRunPeriod' = (IF bootCount > 0
                                      THEN (IF timeNow' > bootTimeLast
                                            THEN timeNow' - bootTimeLast ELSE 0)
                                      ELSE bootRunPeriod)
                 /\ bootCount' = bootCount + 1
                 /\ bootTimeLast' = timeNow' ]_vars
    /\ [](bootRunPeriod >= 0)

\* A third boot recorded, the clock being ahead of the last boot time.
C18_Witness ==
    /\ pc = "loop"
    /\ now = 0
    /\ bootCount = 3
    /\ bootRunPeriod > 0
    /\ bootTimeLast = timeNow

\* The retained statistics keep their values over the step.
KeepsStatistics ==
    UNCHANGED <<bootCount, bootTimeLast, bootRunPeriod, tempValueMin, tempValueMax>>

\* A counter that was counting is back at 0 after the step.
Cleared ==
    \/ bootCount # 0 /\ bootCount' = 0
    \/ reconnects # 0 /\ reconnects' = 0

\* C19 as stated: a reset that keeps the power leaves the boot count, the last
\* boot time, the last run period, the count of reconnections and the extrema as
\* they were, until setup() records the boot; the counters are cleared by a loss
\* of power or by the command that resets them only.
C19_RetainedAsStated ==
    [][ /\ SoftReset => (KeepsStatistics /\ reconnects' = reconnects)
        /\ Cleared => (PowerLoss \/ dispatched' = ResetInitHigh) ]_vars

\* C19 as amended: the same, but that the count of reconnections is retained by
\* thermometer01.ino only: in thermometer.ino every start of the process sets it
\* to 0.
C19_Retained ==
    [][ /\ SoftReset
           => /\ KeepsStatistics
              /\ reconnects' = (IF variant = "thermometer01" THEN reconnects ELSE 0)
        /\ Cleared => \/ PowerLoss
                      \/ dispatched' = ResetInitHigh
                      \/ SoftReset /\ variant = "thermometer" ]_vars

\* thermometer01.ino is about to record a boot after a reset that kept the
\* power: a boot and a reconnection counted, a run period recorded, the extrema
\* apart.
C19_Witness ==
    /\ pc = "setup"
    /\ variant = "thermometer01"
    /\ bootCount = 2
    /\ bootRunPeriod > 0
    /\ reconnects > 0
    /\ folded
    /\ tempValueMin < tempValueMax

----------------------------------------------------------------------------
(* Properties of the periods, checked under SpecLate *)

\* C20: a polled task (the publishing to Particle, to ThingSpeak and to Blynk and
\* the connection probe) runs at most once in a pass of loop(), and a run comes
\* no earlier than the period of the task after the run before, also when the
\* clock wraps in between.
C20_PeriodGating ==
    [][ /\ tsPublish' # tsPublish => since.particle >= Units(PERIOD_PUBLISH_PARTICLE)
        /\ tsThingspeak' # tsThingspeak => since.thingspeak >= Units(PERIOD_PUBLISH_THINGSPEAK)
        /\ tsBlynk' # tsBlynk => since.blynk >= Units(PERIOD_PUBLISH_BLYNK)
        /\ tsWatch' # tsWatch => since.watch >= Units(TIMEOUT_RECONNECT) ]_vars

\* The pass in which the clock has wrapped: the publishing ran in it, with the
\* runs before on the other side of the wrap, and the connection probe, which ran
\* in the pass before, did not.
C20_Witness ==
    /\ pc = "loop"
    /\ now < Units(LoopMs)
    /\ tsPublish = now
    /\ tsThingspeak = now
    /\ tsBlynk = now
    /\ tsWatch > now
    /\ since.watch = Units(LoopMs)

----------------------------------------------------------------------------
(* Properties of a pass of loop(), checked under SpecPublish *)

\* C21: every pass of loop() tickles the watchdog exactly once, before the
\* commands, the connection probe, the measurement and the publishing of the
\* pass, and the pass returns after at most PARTICLE_BATCH_LIMIT + 1 calls of
\* Particle.publish and fewer than MaxIters iterations of either loop, whatever
\* the results are.
C21_Watchdog ==
    /\ pc \in {"blynk", "watch", "mqtt", "measure", "trend", "publish"} => tickles = 1
    /\ (pc = "loop" /\ passes > 0) => tickles = 1
    /\ Len(batch) <= PARTICLE_BATCH_LIMIT + 1
    /\ \A p \in {"Inits", "Values"} : loopIters[p] < MaxIters

\* A pass has returned in which a boot publish failed and the value phase used
\* up the rest of the batch.
C21_Witness ==
    /\ pc = "loop"
    /\ tickles = 1
    /\ Len(batch) = PARTICLE_BATCH_LIMIT + 1
    /\ \E j \in DOMAIN batch : batch[j].phase = "Inits" /\ ~batch[j].ok

----------------------------------------------------------------------------
(* Properties of the connection probe and of the commands, checked under
   SpecStats and SpecMqtt *)

\* The step is a probe of watchConnection: its body behind TIMEOUT_RECONNECT runs.
Probe == pc = "watch" /\ pc' # "setup" /\ tsWatch' # tsWatch

\* The step dispatches the command or delivers the message that resets the
\* counters of thermometer01.ino.
ResetsCounters ==
    \/ pc = "blynk" /\ variant = "thermometer01" /\ dispatched' = ResetInitHigh
    \/ /\ pc = "mqtt"
       /\ delivered'.topic = MQTT_TOPIC_SUB_RESET
       /\ MsgPayload(delivered'.payload) = MQTT_VAR_INITIALS

\* C22: a probe that finds the Particle cloud not connected adds 1 to reconnects
\* and calls Particle.connect(); a probe that finds it connected leaves
\* reconnects as it is and calls nothing; within a run of the process no other
\* step changes reconnects but the command that resets the counters.
C22_Reconnects ==
    [][ /\ (Probe /\ ~connected) => (reconnects' = reconnects + 1 /\ connectIssued')
        /\ (Probe /\ connected) => (reconnects' = reconnects /\ ~connectIssued')
        /\ (pc = "watch" /\ pc' # "setup") => (connectIssued' <=> (Probe /\ ~connected))
        /\ (reconnects' # reconnects /\ pc' # "setup") => (Probe \/ ResetsCounters) ]_vars

\* A probe of thermometer.ino has just found the cloud not connected, counted a
\* reconnection and called Particle.connect(), which brought the connection back.
C22_Witness ==
    /\ pc = "measure"
    /\ variant = "thermometer"
    /\ connectIssued
    /\ connected
    /\ tsWatch = now
    /\ reconnects = 1

----------------------------------------------------------------------------
(* Properties of the publishing to Blynk, checked under SpecBlynk *)

\* The step publishes to Blynk: the body of publishBlynk behind its period runs.
BlynkStep == pc = "publish" /\ pc' # "setup" /\ tsBlynk' # tsBlynk

\* static float tempValueOld of publishBlynk as the step finds it.
TempValueOld == IF blynkStatics THEN blynkValueOld ELSE tempValue

\* The status remembered at the notification before: the status of the latest
\* Blynk.notify or, before any, the status the static tempStatusOld started with.
StatusNotified ==
    IF notifyLog # <<>> THEN notifyLog[Len(notifyLog)]
    ELSE IF blynkStatics THEN blynkStatusOld ELSE tempStatus

\* C23: thermometer.ino calls Blynk.notify only in a step that publishes to
\* Blynk, with |tempValue - tempValueOld| > TEMP_VALUE_MARGIN and with tempStatus
\* other than the status remembered at the notification before, and the
\* notification carries tempStatus; so no two notifications in a row carry the
\* same status.
C23_NotifyGating ==
    [][ variant = "thermometer" =>
          /\ (notifyLog' # notifyLog /\ pc' # "setup")
                => /\ BlynkStep
                   /\ Fabs(tempValue - TempValueOld) > TEMP_VALUE_MARGIN
                   /\ tempStatus # StatusNotified
                   /\ notifyLog' = Append(notifyLog, tempStatus)
          /\ \A j \in 1..(Len(notifyLog') - 1) : notifyLog'[j] # notifyLog'[j + 1] ]_vars

\* thermometer.ino has sent two notifications.
C23_Witness ==
    /\ variant = "thermometer"
    /\ Len(notifyLog) = 2

\* C24: every step that publishes to Blynk sets the two LEDs by the sign of
\* tempValue - tempValueOld: ledTempInc on and ledTempDec off when it is
\* positive, the other way round when it is negative, both off when it is zero.
C24_Indicators ==
    [][ BlynkStep => /\ ledTempInc' = (tempValue > TempValueOld)
                     /\ ledTempDec' = (tempValue < TempValueOld) ]_vars

----------------------------------------------------------------------------
(* Properties of the values written, checked under SpecStats *)

\* The step dispatches a write of a value other than HIGH to one of the pins.
WritesOther ==
    /\ pc = "blynk"
    /\ pc' # "setup"
    /\ dispatched'.pin \in {"ResetTemp", "ResetInit", "Disconnect"}
    /\ dispatched'.value # HIGH

\* C25: a write of a value other than HIGH to the pin that resets the extrema,
\* to the pin that resets the counters or to the pin that disconnects leaves the
\* extrema, the counters, the connection and every other variable as they were.
C25_HighOnly ==
    [][ WritesOther =>
          UNCHANGED <<varsBuild, now, passes, tickles, varsRssi, varsPublish, varsMeasure, varsTrend,
                      varsStats, varsWatch, delivered, mqttStatus, varsClouds, since>> ]_vars

\* A value that is neither LOW nor HIGH has been written to the pin that resets
\* the extrema, the extrema being apart and the cloud connected.
C25_Witness ==
    /\ pc \in {"watch", "mqtt"}
    /\ dispatched = [pin |-> "ResetTemp", value |-> ANALOG]
    /\ folded
    /\ tempValueMin < tempValueMax
    /\ connected

----------------------------------------------------------------------------
(* Properties of the messages of the broker, checked under SpecMqtt *)

\* The payload as the broker sent it.
WholePayload(payload) == payload

\* The counters of thermometer01.ino and the extrema.
Counters == <<bootCount, bootRunPeriod, bootTimeLast, reconnects>>
Extrema == <<tempValueMin, tempValueMax>>

\* Everything but the counters, the extrema and what tells of the message keeps
\* its value over the step.
NothingElse ==
    UNCHANGED <<varsBuild, now, passes, tickles, varsRssi, varsPublish, tempValue, tempStatus,
                tsMeasureTemp, measured, tempValuePrev, tempStatusPrev, readNow, varsTrend,
                timeNow, folded, connected, tsWatch, connectIssued, dispatched, varsClouds,
                since>>

\* A step that delivers a message does what the topic and the text of the payload
\* ask for and nothing else, Text(payload) being the text the payload is read as.
Dispatches(Text(_)) ==
    (pc = "mqtt" /\ pc' # "setup" /\ delivered' # NoMessage) =>
        LET topic      == delivered'.topic
            text       == Text(delivered'.payload)
            initials   == topic = MQTT_TOPIC_SUB_RESET /\ text = MQTT_VAR_INITIALS
            statistics == topic = MQTT_TOPIC_SUB_RESET /\ text = MQTT_VAR_STATISTICS
            status     == topic = MQTT_TOPIC_SUB_GET /\ text = MQTT_VAR_INITIALS
        IN  /\ NothingElse
            /\ initials => /\ bootCount' = 0 /\ bootRunPeriod' = 0 /\ reconnects' = 0
                           /\ UNCHANGED Extrema
                           /\ mqttStatus' = mqttStatus
            /\ statistics => /\ tempValueMin' = tempValue /\ tempValueMax' = tempValue
                             /\ UNCHANGED Counters
                             /\ mqttStatus' = mqttStatus
            /\ status => /\ mqttStatus' = mqttStatus + 1
                         /\ UNCHANGED <<Counters, Extrema>>
            /\ ~(initials \/ statistics \/ status)
                  => /\ mqttStatus' = mqttStatus
                     /\ UNCHANGED <<Counters, Extrema>>

\* C26 as stated: a message on the Reset topic with payload "Initials" sets the
\* counters to 0 and leaves the extrema, with payload "Statistics" it sets both
\* extrema to tempValue and leaves the counters; a message on the Get topic with
\* payload "Initials" publishes one status message and changes nothing; a
\* message with any other topic or payload changes nothing and publishes nothing.
C26_DispatchAsStated == [][ Dispatches(WholePayload) ]_vars

\* C26 as amended: the same, the payload being read as the text up to its first
\* NUL byte.
C26_Dispatch == [][ Dispatches(MsgPayload) ]_vars

\* The message that resets the counters has been delivered in the pass in which
\* a reconnection was counted, and the counters are at 0.
C26_Witness ==
    /\ pc = "measure"
    /\ delivered = [topic |-> MQTT_TOPIC_SUB_RESET, payload |-> MQTT_VAR_INITIALS]
    /\ connectIssued
    /\ tsWatch = now
    /\ reconnects = 0
    /\ bootCount = 0
    /\ bootTimeLast = 0

----------------------------------------------------------------------------
(* Properties of the sketch 1.0.0, checked under SpecFirst *)

\* C27: in the sketch 1.0.0 the events published to Particle within one pass of
\* loop(), the boot events, the value events and the event ThingSpeakResult
\* together, are never more than 4.
C27_BatchCeiling ==
    variant = "thermometer100" => Len(SelectSeq(batch, LAMBDA c : c.ok)) <= PARTICLE_BATCH_LIMIT

----------------------------------------------------------------------------
(* Properties of a run of publishParticle, checked under SpecPublish *)

\* The Particle.publish calls of the latest run that succeeded.
Sent == SelectSeq(batch, LAMBDA c : c.ok)

\* C28: batchMsgs counts the messages sent: what a run of publishParticleInits
\* and of publishParticleValues adds to the batchMsgs handed to it is the number
\* of Particle.publish calls it made that returned true, so that the batchMsgs
\* the run of publishParticle ends with is the number of messages it sent.
C28_CountsSends == batchMsgs = Len(Sent)

\* C29: after a Particle.publish call that failed, a run of publishParticle
\* makes no further call, in either phase.
C29_NoSendAfterFailure == \A j \in 1..(Len(batch) - 1) : batch[j].ok

\* C30: a run of publishParticle returns, for every table the builds have, every
\* message number to begin with and every pattern of results: its loops make
\* fewer than MaxIters iterations and send at most PARTICLE_BATCH_LIMIT messages,
\* and the value phase never makes two iterations in a row without a
\* Particle.publish call, so that its iterations are at most twice its calls
\* and one.
C30_Terminates ==
    /\ \A p \in {"Inits", "Values"} : loopIters[p] < MaxIters
    /\ Len(Sent) <= PARTICLE_BATCH_LIMIT
    /\ loopIters.Values <= 2 * Len(Attempts(batch, "Values")) + 1

\* A run whose value phase began beyond the first message, came to the end of a
\* table shorter than the batch, went on from the first message and used up the
\* batch.
C30_Witness ==
    /\ NumValues < PARTICLE_BATCH_LIMIT
    /\ startMsgNoValues > 0
    /\ Successes(batch, "Values") = <<1, 2, 0, 1>>
    /\ loopIters.Values = PARTICLE_BATCH_LIMIT + 1

----------------------------------------------------------------------------
(* Progress of the publish scheduler, checked under SpecPublish and SpecFair *)

\* The step is a run of publishParticle: the body behind its period runs.
ParticleStep == pc = "publish" /\ pc' # "setup" /\ tsPublish' # tsPublish

\* C31: a run of publishParticle in which every Particle.publish call succeeds
\* sends at least one message, and the message number of a phase moves on: a
\* sendMsgNo differs after the run, or the run has sent the whole value table
\* once around.
C31_Progress ==
    [][ (ParticleStep /\ AllOk') =>
          /\ Len(Sent') >= 1
          /\ batchMsgs' >= 1
          /\ \/ sendMsgNoInits' # sendMsgNoInits
             \/ sendMsgNoValues' # sendMsgNoValues
             \/ Len(Successes(batch', "Values")) = NumValues ]_vars

\* A run in which every publish succeeded has sent the value table of 4 once
\* around and left sendMsgNo where it was.
C31_Witness ==
    /\ pc = "loop"
    /\ batch # <<>>
    /\ AllOk
    /\ NumValues = PARTICLE_BATCH_LIMIT
    /\ startMsgNoValues = NumValues
    /\ sendMsgNoValues = NumValues
    /\ Successes(batch, "Values") = <<0, 1, 2, 3>>

\* The cloud accepts every event from here on, and loop() has its passes before
\* it.
Settled == env.accepts = {TRUE} /\ passes <= env.horizon - Remaining

\* The boot phase is over, every message of the boot table has been sent once,
\* and a run that began after the boot phase has sent value messages.
BootComplete ==
    /\ ~particlePublishAfterBoot
    /\ \A m \in 0..(NumInits - 1) : Count(sentInits, m) = 1
    /\ bootDoneBefore
    /\ Successes(batch, "Values") # <<>>

\* C32: once every Particle.publish call succeeds and publishParticle keeps being
\* run, the boot phase comes to be marked complete with every message of the boot
\* table sent once, and value messages are sent after that.
C32_BootLiveness == Settled ~> BootComplete

\* Publish calls failed, the cloud settled before a value message was sent, and
\* the boot phase was completed after that.
C32_Witness ==
    /\ BootComplete
    /\ anyFail
    /\ env.settled = 0
    /\ NumInits = 5

\* Every index of the value table is among any span consecutive value messages
\* sent.
Rotates(span) ==
    \A i \in 1..(Len(sentValues) - span + 1) :
        \A m \in 0..(NumValues - 1) : \E j \in i..(i + span - 1) : sentValues[j] = m

\* The value messages sent, however the failures fell, go around the table: an
\* index is sent again before the others are sent twice.
NoStarvation == Rotates(2 * NumValues - 1)

\* Every index of the value table has been sent since the cloud settled.
EverySentSince ==
    /\ env.settled >= 0
    /\ \A m \in 0..(NumValues - 1) :
          \E j \in (env.settled + 1)..Len(sentValues) : sentValues[j] = m

\* C33: no value message is starved.  The sends that succeed, whatever failures
\* lie between them and wherever the table wraps, take every index of the value
\* table in turn; and when sends succeed and publishParticle keeps being run,
\* every index is sent again.
C33_Rotation == []NoStarvation /\ (Settled ~> EverySentSince)

\* Publish calls failed, the cloud settled with value messages sent, and the
\* whole table of 5 has been sent again since, across its wrap.
C33_Witness ==
    /\ EverySentSince
    /\ anyFail
    /\ env.settled > 0
    /\ NumValues = 5
    /\ Len(sentValues) >= env.settled + 2 * NumValues

----------------------------------------------------------------------------
(* The boot events of the sketch 1.0.0, checked under SpecFirst *)

\* C34: in the sketch 1.0.0 each boot event, Boot_Cnt_Run (0) and Sketch (1), is
\* published successfully at most once in a run of the process, however the
\* Particle.publish calls turn out.
C34_BootEventsOnce == \A m \in {0, 1} : Count(sentInits, m) <= 1

----------------------------------------------------------------------------
(* The extrema and the reset command, checked under SpecStats *)

\* C35: in thermometer.ino, however the command that resets the extrema falls
\* among the measurements, tempValueMin and tempValueMax are never
\* TEMP_VALUE_NAN, and after every reading of measureTemp
\* tempValueMin <= tempValue <= tempValueMax.
C35_ExtremaReal ==
    variant = "thermometer" =>
        /\ tempValueMin # TEMP_VALUE_NAN
        /\ tempValueMax # TEMP_VALUE_NAN
        /\ (pc = "trend" /\ readNow) =>
              (tempValueMin <= tempValue /\ tempValue <= tempValueMax)

----------------------------------------------------------------------------
(* The time base of the trend, checked under SpecLate *)

\* The call of measureTempTrend that is about to run computes a trend.
ComputesTrend ==
    /\ TrendCall
    /\ Sub32(now, tsTrend) >= Units(PERIOD_MEASURE_TEMP_TREND) \/ tsTrend = 0
    /\ HasBaseline(tsTrendOld)

\* C36: whenever measureTempTrend computes a trend, the elapsed time it divides
\* by, tsMeasure - tsMeasureOld as the code takes it, is at least
\* PERIOD_MEASURE_TEMP_TREND, also when the clock has wrapped between the two
\* samples.
C36_TimeBase == ComputesTrend => now - tsTrendOld >= Units(PERIOD_MEASURE_TEMP_TREND)

----------------------------------------------------------------------------
(* The signal strength, checked under SpecRssi *)

\* C37: in measureRssi of thermometer.ino every value passed to the filter of
\* the signal strength is a valid reading, that is negative, also when two
\* calls of WiFi.RSSI() in a row return different values.
C37_ValidOnly ==
    variant = "thermometer" => \A j \in DOMAIN rssiFiltered : rssiFiltered[j] < 0

----------------------------------------------------------------------------
(* The indicators, checked under SpecBlynk *)

\* C38: at most one of the two indicators, ledTempInc for a temperature that
\* rises and ledTempDec for one that falls, is on.
C38_OneIndicator == ~(ledTempInc /\ ledTempDec)

\* publishBlynk has just turned ledTempDec on and ledTempInc off, a notification
\* having been pushed.
C38_Witness ==
    /\ pc = "loop"
    /\ ledTempDec
    /\ ~ledTempInc
    /\ tsBlynk = now
    /\ Len(notifyLog) >= 1

====
